---- MODULE Spec2Model ----
(***************************************************************************)
(* Model of the translation action controller of                           *)
(* src/renderer/src/windows/selection/action/components/ActionTranslate.tsx *)
(*                                                                         *)
(* One action of the model is one handler, effect continuation or          *)
(* collaborator callback of the component, together with the render and    *)
(* the effects that React runs because of the state it changed.            *)
(* A language value is the record [langCode |-> c]; a topic is its id      *)
(* (0 is the null topic); a request is identified by its position in       *)
(* requests.                                                               *)
(***************************************************************************)
EXTENDS Integers, Sequences, FiniteSets, TLC

\* ---------------------------------------------------------------- bounds
MaxPending == 2      \* initialize() calls started per controller lifetime
MaxSubmits == 2      \* processMessages() calls per controller lifetime
MaxMsgs    == 2      \* messages kept per topic in the message store
MaxReloads == 1      \* fresh controllers created after the first one

\* ------------------------------------------------------------- constants
Undefined == "<undefined>"      \* JS undefined (selection text, message status)
NoRecord  == "<no-record>"      \* db.settings.get found no record
NoChange  == [langCode |-> "<none>"]
Null      == [kind |-> "null"]
NoCall    == [kind |-> "none"]

Lang(code) == [langCode |-> code]
UNKNOWN == Lang("unknown")
LanguagesEnum_zhCN == Lang("zh-cn")

BuiltinCodes == {"zh-cn", "en-us"}
CustomCodes  == {"xx"}
Codes        == BuiltinCodes \cup CustomCodes
\* values the interface-language setting can take: one the catalog knows,
\* one it does not
InterfaceLanguages == {"en-us", "fr-fr"}
\* what the settings record can hold when the first controller starts: no
\* record, an empty value, a builtin code, the code of a custom language
InitialDbValues == {NoRecord, "", "en-us", "xx"}
SelectedTexts == {Undefined, "", "hello"}
Contents == {"c1"}
ErrorMessages == {"boom"}

StreamingStatuses == {"processing", "pending", "searching"}
FinishedStatuses  == {"paused", "error", "success"}
MessageStatuses   == StreamingStatuses \cup FinishedStatuses \cup {"weird"}
\* the statuses a message takes in SpecLive: one that streams, two that settle
LiveStatuses      == {"processing", "paused", "success"}

Topics == 1..MaxPending

VARIABLES
  language, selectedText,            \* props / settings, fixed for a lifetime
  isLanguagesLoaded, catalog,        \* useTranslate()
  targetLanguage, targetLangRef,
  error, status, contentToCopy, initialized,
  assistantRef, topicRef, askId,
  pending,                           \* initialize() calls awaiting updateTargetLanguage()
  requests,                          \* phase of every processMessages() call, in submit order
  messages,                          \* message store: topic id -> messages
  viewTopic,                         \* topic id passed to useTopicMessages at the last render
  db,                                \* settings record 'translate:target:language'
  topicsCreated,
  out,                               \* calls the last step made: processMessages, or abortCompletion / pauseTrace
  generation, lastChange             \* history: controllers mounted so far, last accepted changeLanguage

vars == <<language, selectedText, isLanguagesLoaded, catalog, targetLanguage,
          targetLangRef, error, status, contentToCopy, initialized,
          assistantRef, topicRef, askId, pending, requests, messages,
          viewTopic, db, topicsCreated, out,
          generation, lastChange>>

\* ------------------------------------------------------------ pure parts

\* Language Catalog: resolve(code), the unknown sentinel on a miss
getLanguageByLangcode(cat, code) ==
  IF code \in cat THEN Lang(code) ELSE UNKNOWN

InitialTargetLanguage_NoFallback(cat, lng) == getLanguageByLangcode(cat, lng)

\* useState initializer of targetLanguage
InitialTargetLanguage(cat, lng) ==
  LET lang == getLanguageByLangcode(cat, lng)
  IN  IF lang /= UNKNOWN THEN lang ELSE LanguagesEnum_zhCN

getDefaultTranslateAssistant(lang, text) ==
  [kind |-> "assistant", lang |-> lang, text |-> text]

\* JS truthiness of action.selectedText
Truthy(text) == text /= Undefined /\ text /= ""

\* savedTargetLang && savedTargetLang.value
HasSavedValue(saved) == saved /= NoRecord /\ saved /= ""

PersistedCode_Previous(newTargetLanguage) == targetLanguage.langCode

\* handleChangeLanguage: the value it puts in the settings record
PersistedCode(newTargetLanguage) == newTargetLanguage.langCode

\* updateTargetLanguage after the read resolved: the language it leaves in
\* targetLanguage and targetLangRef, given the one they hold
updateTargetLanguage_Ignored(saved, cat, current) == current

updateTargetLanguage(saved, cat, current) ==
  IF HasSavedValue(saved) THEN getLanguageByLangcode(cat, saved) ELSE current

\* handleRegenerate: setContentToCopy('')
RegenerateContent_Kept(content) == content

RegenerateContent(content) == ""

CanFetch_TextOnly(aRef, tRef, text, init) == Truthy(text)

\* the guard of fetchResult
CanFetch(aRef, tRef, text, init) ==
  aRef /= Null /\ tRef /= 0 /\ Truthy(text) /\ init

\* the body of fetchResult after its guard: the assistant it stores ...
FetchAssistant(aRef, tRef, text, init, tl) ==
  IF CanFetch(aRef, tRef, text, init)
    THEN getDefaultTranslateAssistant(tl, text) ELSE aRef

\* ... and the request it submits with processMessages
FetchRequests(reqs, aRef, tRef, text, init, tl) ==
  IF CanFetch(aRef, tRef, text, init)
    THEN Append(reqs, "new") ELSE reqs

FetchSubmit_StaleAssistant(aRef, tRef, text, init, tl) ==
  IF CanFetch(aRef, tRef, text, init)
    THEN [kind |-> "submit", assistant |-> aRef, topic |-> tRef]
    ELSE NoCall

FetchSubmit(aRef, tRef, text, init, tl) ==
  IF CanFetch(aRef, tRef, text, init)
    THEN [kind |-> "submit", assistant |-> getDefaultTranslateAssistant(tl, text),
          topic |-> tRef]
    ELSE NoCall

useTopicMessages(store, topicId) ==
  IF topicId \in DOMAIN store THEN store[topicId] ELSE <<>>

SetMax(S) == CHOOSE x \in S : \A y \in S : y <= x

CurrentAssistantStatus_First(allMessages) ==
  LET idx == {i \in DOMAIN allMessages : allMessages[i].role = "assistant"}
  IN  IF idx = {} THEN Undefined
      ELSE allMessages[CHOOSE i \in idx : \A j \in idx : i <= j].status

\* useMemo currentAssistantMessage, then ?.status
CurrentAssistantStatus(allMessages) ==
  LET idx == {i \in DOMAIN allMessages : allMessages[i].role = "assistant"}
  IN  IF idx = {} THEN Undefined ELSE allMessages[SetMax(idx)].status

ObservedStatus(store, topicId) ==
  CurrentAssistantStatus(useTopicMessages(store, topicId))

SyncStatus_NoPaused(st, msgStatus) ==
  CASE msgStatus \in StreamingStatuses -> "streaming"
    [] msgStatus \in {"error", "success"} -> "finished"
    [] OTHER -> st

\* the switch of the status sync effect
SyncStatus(st, msgStatus) ==
  CASE msgStatus \in StreamingStatuses -> "streaming"
    [] msgStatus \in FinishedStatuses  -> "finished"
    [] OTHER -> st

\* the status sync effect runs when currentAssistantMessage?.status changed
StatusEffect(oldObs, newObs, st) ==
  IF oldObs = newObs THEN st ELSE SyncStatus(st, newObs)

StartInitialize_NoInitializedGuard(pend, init, loaded, text, cat, record) ==
  IF ~loaded \/ text = Undefined
    THEN pend
    ELSE Append(pend, [cat |-> cat, saved |-> record])

StartInitialize_NoLoadedGuard(pend, init, loaded, text, cat, record) ==
  IF init \/ text = Undefined
    THEN pend
    ELSE Append(pend, [cat |-> cat, saved |-> record])

StartInitialize_NoTextGuard(pend, init, loaded, text, cat, record) ==
  IF init \/ ~loaded
    THEN pend
    ELSE Append(pend, [cat |-> cat, saved |-> record])

\* the synchronous part of initialize(), run by its effect: unless one of the
\* three guards returns, updateTargetLanguage issues db.settings.get.  The
\* read is ordered before every later write of the record, so the call is
\* kept with the value it will resolve to and with the catalog its
\* getLanguageByLangcode closes over.
StartInitialize(pend, init, loaded, text, cat, record) ==
  IF init \/ ~loaded \/ text = Undefined
    THEN pend
    ELSE Append(pend, [cat |-> cat, saved |-> record])

RemoveAt(s, i) == [j \in 1..(Len(s) - 1) |-> IF j < i THEN s[j] ELSE s[j + 1]]

\* -------------------------------------------------------------- initial
\* The state after the first render and its effects: initialize() and
\* fetchResult() have run once and returned at their guards.
Mounted(lng, text, dbv) ==
  /\ language = lng
  /\ selectedText = text
  /\ isLanguagesLoaded = FALSE
  /\ catalog = BuiltinCodes
  /\ targetLanguage = InitialTargetLanguage(BuiltinCodes, lng)
  /\ targetLangRef = InitialTargetLanguage(BuiltinCodes, lng)
  /\ error = ""
  /\ status = "preparing"
  /\ contentToCopy = ""
  /\ initialized = FALSE
  /\ assistantRef = FetchAssistant(Null, 0, text, FALSE,
                                   InitialTargetLanguage(BuiltinCodes, lng))
  /\ topicRef = 0
  /\ askId = 0
  /\ pending = StartInitialize(<<>>, FALSE, FALSE, text, BuiltinCodes, dbv)
  /\ requests = FetchRequests(<<>>, Null, 0, text, FALSE,
                              InitialTargetLanguage(BuiltinCodes, lng))
  /\ messages = [t \in Topics |-> <<>>]
  /\ viewTopic = 0
  /\ db = dbv
  /\ topicsCreated = 0
  /\ out = NoCall

Init ==
  /\ \E lng \in InterfaceLanguages, text \in SelectedTexts,
        dbv \in InitialDbValues :
       Mounted(lng, text, dbv)
  /\ generation = 0
  /\ lastChange = NoChange

\* ------------------------------------------------------- render / commit
props   == <<language, selectedText>>
history == <<generation, lastChange>>
ctl     == <<props, history, isLanguagesLoaded, catalog, targetLanguage,
             targetLangRef, error, status, contentToCopy, initialized,
             assistantRef, topicRef, askId, pending, requests, messages,
             viewTopic, db, topicsCreated>>

\* A render passes topicRef.current?.id to useTopicMessages; the status sync
\* effect then runs if the status of the current assistant message differs
\* from the one of the previous render.  st is the status the handler set.
Commit(rendered, st, tRef, store) ==
  LET vt == IF rendered THEN tRef ELSE viewTopic
  IN  /\ viewTopic' = vt
      /\ status' = IF rendered
                     THEN StatusEffect(ObservedStatus(messages, viewTopic),
                                       ObservedStatus(store, vt), st)
                     ELSE st

\* -------------------------------------------------------------- actions

\* useTranslate(): the catalog becomes ready.  isLanguagesLoaded and
\* getLanguageByLangcode change, so the initialize effect runs.
CatalogLoaded ==
  /\ ~isLanguagesLoaded
  /\ isLanguagesLoaded' = TRUE
  /\ \E cat \in {BuiltinCodes, Codes} :
       /\ catalog' = cat
       /\ pending' = StartInitialize(pending, initialized, TRUE, selectedText,
                                     cat, db)
  /\ Commit(TRUE, status, topicRef, messages)
  /\ UNCHANGED <<props, history, targetLanguage, targetLangRef, error,
                 contentToCopy, initialized, assistantRef, topicRef, askId,
                 requests, messages, db, topicsCreated>>
  /\ out' = NoCall

\* useTranslate(): the catalog changes while ready (custom languages are added
\* or removed); getLanguageByLangcode changes, so updateTargetLanguage and
\* initialize are recreated and the initialize effect runs again.
CatalogChange ==
  /\ isLanguagesLoaded
  /\ \E cat \in {BuiltinCodes, Codes} \ {catalog} :
       /\ catalog' = cat
       /\ pending' = StartInitialize(pending, initialized, isLanguagesLoaded,
                                     selectedText, cat, db)
  /\ Len(pending') + topicsCreated <= MaxPending
  /\ Commit(TRUE, status, topicRef, messages)
  /\ UNCHANGED <<props, history, isLanguagesLoaded, targetLanguage,
                 targetLangRef, error, contentToCopy, initialized, assistantRef,
                 topicRef, askId, requests, messages, db,
                 topicsCreated>>
  /\ out' = NoCall

\* the continuation of the i-th waiting initialize(): the rest of
\* updateTargetLanguage, then the creation step.  The state updates are
\* batched into one render; if initialized changed the initialize effect runs
\* (and returns at its first guard), and if initialized or targetLanguage
\* changed the fetchResult effect runs.
InitResume(i) ==
  /\ i \in DOMAIN pending
  /\ LET p   == pending[i]
         tl  == updateTargetLanguage(p.saved, p.cat, targetLanguage)
         ref == updateTargetLanguage(p.saved, p.cat, targetLangRef)
         currentAssistant == getDefaultTranslateAssistant(ref, selectedText)
         topic == topicsCreated + 1
         rendered == tl /= targetLanguage \/ ~initialized
     IN  /\ targetLanguage' = tl
         /\ targetLangRef' = ref
         /\ topicRef' = topic
         /\ topicsCreated' = topic
         /\ initialized' = TRUE
         /\ assistantRef' =
              IF rendered
                THEN FetchAssistant(currentAssistant, topic, selectedText, TRUE, tl)
                ELSE currentAssistant
         /\ requests' =
              IF rendered
                THEN FetchRequests(requests, currentAssistant, topic,
                                   selectedText, TRUE, tl)
                ELSE requests
         /\ out' =
              IF rendered
                THEN FetchSubmit(currentAssistant, topic, selectedText, TRUE, tl)
                ELSE NoCall
         /\ Commit(rendered, status, topic, messages)
  /\ Len(requests') <= MaxSubmits
  /\ pending' = IF initialized
                  THEN RemoveAt(pending, i)
                  ELSE StartInitialize(RemoveAt(pending, i), TRUE,
                                       isLanguagesLoaded, selectedText,
                                       catalog, db)
  /\ UNCHANGED <<props, history, isLanguagesLoaded, catalog, error,
                 contentToCopy, askId, messages, db>>

\* LanguageSelect onChange (enabled unless streaming) with the option value
\* `code`, i.e. handleChangeLanguage(getLanguageByLangcode(code)); a changed
\* targetLanguage makes the fetchResult effect run
HandleChangeLanguage(code) ==
  /\ status /= "streaming"
  /\ LET newTargetLanguage == getLanguageByLangcode(catalog, code)
         rendered == newTargetLanguage /= targetLanguage
     IN  IF ~initialized
           THEN out' = NoCall /\ UNCHANGED ctl
           ELSE /\ targetLanguage' = newTargetLanguage
                /\ targetLangRef' = newTargetLanguage
                /\ db' = PersistedCode(newTargetLanguage)
                /\ lastChange' = newTargetLanguage
                /\ assistantRef' =
                     IF rendered
                       THEN FetchAssistant(assistantRef, topicRef, selectedText,
                                           initialized, newTargetLanguage)
                       ELSE assistantRef
                /\ requests' =
                     IF rendered
                       THEN FetchRequests(requests, assistantRef, topicRef,
                                          selectedText, initialized,
                                          newTargetLanguage)
                       ELSE requests
                /\ out' =
                     IF rendered
                       THEN FetchSubmit(assistantRef, topicRef, selectedText,
                                        initialized, newTargetLanguage)
                       ELSE NoCall
                /\ Len(requests') <= MaxSubmits
                /\ Commit(rendered, status, topicRef, messages)
                /\ UNCHANGED <<props, generation, isLanguagesLoaded,
                               catalog, error, contentToCopy, initialized,
                               topicRef, askId, pending, messages,
                               topicsCreated>>

HandleRegenerate_ResetsStatus ==
  /\ contentToCopy' = RegenerateContent(contentToCopy)
  /\ assistantRef' = FetchAssistant(assistantRef, topicRef, selectedText,
                                    initialized, targetLanguage)
  /\ requests' = FetchRequests(requests, assistantRef, topicRef, selectedText,
                               initialized, targetLanguage)
  /\ out' = FetchSubmit(assistantRef, topicRef, selectedText, initialized,
                        targetLanguage)
  /\ Len(requests') <= MaxSubmits
  /\ Commit(TRUE, "preparing", topicRef, messages)
  /\ UNCHANGED <<props, history, isLanguagesLoaded, catalog, targetLanguage,
                 targetLangRef, error, initialized, topicRef, askId, pending,
                 messages, db, topicsCreated>>

\* WindowFooter onRegenerate
HandleRegenerate ==
  /\ contentToCopy' = RegenerateContent(contentToCopy)
  /\ assistantRef' = FetchAssistant(assistantRef, topicRef, selectedText,
                                    initialized, targetLanguage)
  /\ requests' = FetchRequests(requests, assistantRef, topicRef, selectedText,
                               initialized, targetLanguage)
  /\ out' = FetchSubmit(assistantRef, topicRef, selectedText, initialized,
                        targetLanguage)
  /\ Len(requests') <= MaxSubmits
  /\ Commit(contentToCopy' /= contentToCopy, status, topicRef, messages)
  /\ UNCHANGED <<props, history, isLanguagesLoaded, catalog, targetLanguage,
                 targetLangRef, error, initialized, topicRef, askId, pending,
                 messages, db, topicsCreated>>

HandlePause_CancelsLatest ==
  /\ out' = [kind |-> "pause", cancel |-> Len(requests), trace |-> topicRef]
  /\ UNCHANGED ctl

\* WindowFooter onPause: abortCompletion(askId.current) if an id is recorded,
\* pauseTrace(topicRef.current.id) if there is a topic (0: the call is not made)
HandlePause ==
  /\ out' = [kind |-> "pause", cancel |-> askId, trace |-> topicRef]
  /\ UNCHANGED <<props, history, isLanguagesLoaded, catalog, targetLanguage,
                 targetLangRef, error, status, contentToCopy, initialized,
                 assistantRef, topicRef, askId, pending, requests,
                 messages, viewTopic, db, topicsCreated>>

\* ---- the callbacks processMessages was given for request r
SetAskId(r) ==
  /\ r \in DOMAIN requests
  /\ requests[r] = "new"
  /\ requests' = [requests EXCEPT ![r] = "issued"]
  /\ askId' = r
  /\ UNCHANGED <<props, history, isLanguagesLoaded, catalog, targetLanguage,
                 targetLangRef, error, status, contentToCopy, initialized,
                 assistantRef, topicRef, pending, messages,
                 viewTopic, db, topicsCreated>>
  /\ out' = NoCall

OnStream(r) ==
  /\ r \in DOMAIN requests
  /\ requests[r] = "issued"
  /\ Commit(status /= "streaming", "streaming", topicRef, messages)
  /\ UNCHANGED <<props, history, isLanguagesLoaded, catalog, targetLanguage,
                 targetLangRef, error, contentToCopy, initialized, assistantRef,
                 topicRef, askId, pending, requests, messages, db,
                 topicsCreated>>
  /\ out' = NoCall

OnFinish_ClearsError(r, content) ==
  /\ r \in DOMAIN requests
  /\ requests[r] = "issued"
  /\ requests' = [requests EXCEPT ![r] = "done"]
  /\ contentToCopy' = content
  /\ error' = ""
  /\ Commit(TRUE, "finished", topicRef, messages)
  /\ UNCHANGED <<props, history, isLanguagesLoaded, catalog, targetLanguage,
                 targetLangRef, initialized, assistantRef, topicRef,
                 askId, pending, messages, db, topicsCreated>>
  /\ out' = NoCall

OnFinish(r, content) ==
  /\ r \in DOMAIN requests
  /\ requests[r] = "issued"
  /\ requests' = [requests EXCEPT ![r] = "done"]
  /\ contentToCopy' = content
  /\ Commit(status /= "finished" \/ contentToCopy /= content, "finished",
            topicRef, messages)
  /\ UNCHANGED <<props, history, isLanguagesLoaded, catalog, targetLanguage,
                 targetLangRef, error, initialized, assistantRef, topicRef,
                 askId, pending, messages, db, topicsCreated>>
  /\ out' = NoCall

OnError_ClearsContent(r, msg) ==
  /\ r \in DOMAIN requests
  /\ requests[r] = "issued"
  /\ requests' = [requests EXCEPT ![r] = "done"]
  /\ error' = msg
  /\ contentToCopy' = ""
  /\ Commit(TRUE, "finished", topicRef, messages)
  /\ UNCHANGED <<props, history, isLanguagesLoaded, catalog, targetLanguage,
                 targetLangRef, initialized, assistantRef,
                 topicRef, askId, pending, messages, db,
                 topicsCreated>>
  /\ out' = NoCall

OnError(r, msg) ==
  /\ r \in DOMAIN requests
  /\ requests[r] = "issued"
  /\ requests' = [requests EXCEPT ![r] = "done"]
  /\ error' = msg
  /\ Commit(status /= "finished" \/ error /= msg, "finished", topicRef, messages)
  /\ UNCHANGED <<props, history, isLanguagesLoaded, catalog, targetLanguage,
                 targetLangRef, contentToCopy, initialized, assistantRef,
                 topicRef, askId, pending, messages, db,
                 topicsCreated>>
  /\ out' = NoCall

\* ---- message store: the messages of a topic that was submitted to change;
\* the component renders when the messages it selected changed
StoreCommit(t, store) ==
  /\ messages' = store
  /\ Commit(t = viewTopic, status, topicRef, store)
  /\ UNCHANGED <<props, history, isLanguagesLoaded, catalog, targetLanguage,
                 targetLangRef, error, contentToCopy, initialized, assistantRef,
                 topicRef, askId, pending, requests, db,
                 topicsCreated>>
  /\ out' = NoCall

AddUserMessage(t) ==
  /\ t \in 1..topicsCreated /\ requests /= <<>>
  /\ Len(messages[t]) < MaxMsgs
  /\ StoreCommit(t, [messages EXCEPT
                       ![t] = Append(@, [role |-> "user", status |-> "success"])])

AddAssistantMessage(t, ms) ==
  /\ t \in 1..topicsCreated /\ requests /= <<>>
  /\ Len(messages[t]) < MaxMsgs
  /\ StoreCommit(t, [messages EXCEPT
                       ![t] = Append(@, [role |-> "assistant", status |-> ms])])

UpdateMessageStatus(t, i, ms) ==
  /\ t \in Topics
  /\ i \in DOMAIN messages[t]
  /\ messages[t][i].role = "assistant"
  /\ messages[t][i].status /= ms
  /\ StoreCommit(t, [messages EXCEPT ![t][i].status = ms])

\* the window is reloaded: a fresh controller mounts; the settings record
\* is all that survives
Reload ==
  /\ generation < MaxReloads
  /\ generation' = generation + 1
  /\ isLanguagesLoaded' = FALSE
  /\ catalog' = BuiltinCodes
  /\ targetLanguage' = InitialTargetLanguage(BuiltinCodes, language)
  /\ targetLangRef' = InitialTargetLanguage(BuiltinCodes, language)
  /\ error' = ""
  /\ status' = "preparing"
  /\ contentToCopy' = ""
  /\ initialized' = FALSE
  /\ assistantRef' = FetchAssistant(Null, 0, selectedText, FALSE,
                                    InitialTargetLanguage(BuiltinCodes, language))
  /\ topicRef' = 0
  /\ askId' = 0
  /\ pending' = StartInitialize(<<>>, FALSE, FALSE, selectedText,
                                BuiltinCodes, db)
  /\ requests' = FetchRequests(<<>>, Null, 0, selectedText, FALSE,
                               InitialTargetLanguage(BuiltinCodes, language))
  /\ messages' = [t \in Topics |-> <<>>]
  /\ viewTopic' = 0
  /\ topicsCreated' = 0
  /\ out' = NoCall
  /\ UNCHANGED <<props, db, lastChange>>

Next ==
  \/ CatalogLoaded
  \/ CatalogChange
  \/ \E i \in 1..MaxPending : InitResume(i)
  \/ \E code \in Codes : HandleChangeLanguage(code)
  \/ HandleRegenerate
  \/ HandlePause
  \/ \E r \in 1..MaxSubmits : SetAskId(r)
  \/ \E r \in 1..MaxSubmits : OnStream(r)
  \/ \E r \in 1..MaxSubmits, content \in Contents : OnFinish(r, content)
  \/ \E r \in 1..MaxSubmits, msg \in ErrorMessages : OnError(r, msg)

Spec == Init /\ [][Next]_vars

\* the status machine: one initialization and its fetch, the callbacks of the
\* fetch, and the message store with the status sync effect
NextStore ==
  \/ CatalogLoaded
  \/ \E i \in 1..MaxPending : InitResume(i)
  \/ \E r \in 1..MaxSubmits : SetAskId(r)
  \/ \E r \in 1..MaxSubmits : OnStream(r)
  \/ \E r \in 1..MaxSubmits, content \in Contents : OnFinish(r, content)
  \/ \E r \in 1..MaxSubmits, msg \in ErrorMessages : OnError(r, msg)
  \/ \E t \in Topics : AddUserMessage(t)
  \/ \E t \in Topics, ms \in MessageStatuses : AddAssistantMessage(t, ms)
  \/ \E t \in Topics, i \in 1..MaxMsgs, ms \in MessageStatuses :
       UpdateMessageStatus(t, i, ms)

SpecStore == Init /\ [][NextStore]_vars

\* the language preference across reloads of the window: initialization,
\* language changes (the select is disabled while a fetch streams) and Reload
NextReload ==
  \/ CatalogLoaded
  \/ CatalogChange
  \/ \E i \in 1..MaxPending : InitResume(i)
  \/ \E code \in Codes : HandleChangeLanguage(code)
  \/ \E r \in 1..MaxSubmits : SetAskId(r)
  \/ \E r \in 1..MaxSubmits : OnStream(r)
  \/ \E r \in 1..MaxSubmits, content \in Contents : OnFinish(r, content)
  \/ Reload

SpecReload == Init /\ [][NextReload]_vars

\* the status machine with regenerate, under the scheduling the completion
\* service provides: every submitted request is issued its handle and then
\* calls onFinish or onError
NextLive ==
  \/ CatalogLoaded
  \/ \E i \in 1..MaxPending : InitResume(i)
  \/ HandleRegenerate
  \/ \E r \in 1..MaxSubmits : SetAskId(r)
  \/ \E r \in 1..MaxSubmits : OnStream(r)
  \/ \E r \in 1..MaxSubmits, content \in Contents : OnFinish(r, content)
  \/ \E r \in 1..MaxSubmits, msg \in ErrorMessages : OnError(r, msg)
  \/ \E t \in Topics, ms \in LiveStatuses : AddAssistantMessage(t, ms)
  \/ \E t \in Topics, i \in 1..MaxMsgs, ms \in LiveStatuses :
       UpdateMessageStatus(t, i, ms)

SpecLive ==
  /\ Init
  /\ [][NextLive]_vars
  /\ \A r \in 1..MaxSubmits :
       /\ WF_vars(SetAskId(r))
       /\ WF_vars(\/ \E content \in Contents : OnFinish(r, content)
                  \/ \E msg \in ErrorMessages : OnError(r, msg))

\* ------------------------------------------------------------ properties

\* C1: the creation step of initialize (build the assistant, create the topic,
\* set initialized) runs at most once in a controller's lifetime, so the topic,
\* once set, never changes.
C1_CreationOnce ==
  [][/\ topicsCreated' <= 1
     /\ (topicRef /= 0 => topicRef' = topicRef)]_vars

\* C2: a request is submitted only with initialized true and both contexts
\* set, and the call is given those contexts; while the controller is not
\* initialized both contexts are null, and no step submits anything or changes
\* the contexts.
C2_NoSubmitBeforeInit ==
  [][/\ (Len(requests') > Len(requests) \/ out'.kind = "submit") =>
          /\ initialized' /\ assistantRef' /= Null /\ topicRef' /= 0
          /\ out' = [kind |-> "submit", assistant |-> assistantRef',
                     topic |-> topicRef']
     /\ ~initialized' =>
          /\ requests' = <<>> /\ requests = <<>>
          /\ assistantRef' = Null /\ topicRef' = 0
          /\ out'.kind /= "submit"]_vars

C2_Witness ==
  /\ initialized /\ out.kind = "submit" /\ Len(requests) = 1
  /\ out.topic = topicRef /\ out.assistant = assistantRef

\* a step of handleChangeLanguage that changes the target language of an
\* initialized controller (the other step that can change it is the
\* continuation of a waiting initialize(), which leaves `pending`)
LanguageChanged ==
  initialized /\ targetLanguage' /= targetLanguage /\ pending' = pending

ExactlyOneSubmitFor(lang, topic) ==
  /\ Len(requests') = Len(requests) + 1
  /\ out' = [kind |-> "submit",
             assistant |-> [kind |-> "assistant", lang |-> lang,
                            text |-> selectedText],
             topic |-> topic]

C4_NoStaleStatus ==
  [][/\ requests /= <<>> /\ requests[Len(requests)] = "done"
     /\ status = "finished"
     => status' = "finished"]_vars

\* C5: a trigger of initialize while initialized is true starts no settings
\* read, creates no context and leaves the controller's variables as they
\* are.  The triggers are a change of the catalog, and the change of
\* initialized itself, in the step that completes the initialization.
C5_InitializedTriggerIsNoOp ==
  [][/\ initialized /\ catalog' /= catalog =>
          /\ pending' = pending /\ topicsCreated' = topicsCreated
          /\ assistantRef' = assistantRef /\ topicRef' = topicRef
          /\ initialized' /\ targetLanguage' = targetLanguage
          /\ targetLangRef' = targetLangRef /\ status' = status
          /\ error' = error /\ contentToCopy' = contentToCopy
          /\ askId' = askId /\ requests' = requests /\ db' = db
          /\ out' = NoCall
     /\ ~initialized /\ initialized' =>
          /\ Len(pending') = Len(pending) - 1
          /\ topicsCreated' = topicsCreated + 1]_vars

\* the language was switched to the sentinel while the catalog lacked the
\* custom code, and the catalog has it now: it changed after initialization
C5_Witness ==
  /\ initialized /\ lastChange = UNKNOWN /\ catalog = Codes
  /\ pending = <<>> /\ topicsCreated = 1

\* C6: while the catalog is not ready nothing is initialized and no settings
\* read is waiting, whatever the selection text.
C6_GatedOnCatalog ==
  ~isLanguagesLoaded =>
    /\ ~initialized /\ assistantRef = Null /\ topicRef = 0
    /\ pending = <<>> /\ topicsCreated = 0

C6_Witness == ~isLanguagesLoaded /\ selectedText = "hello" /\ generation = 0

\* C7: with an undefined selection text the controller never initializes and
\* never submits.
C7_UndefinedTextNeverInitializes ==
  selectedText = Undefined =>
    /\ ~initialized /\ assistantRef = Null /\ topicRef = 0
    /\ pending = <<>> /\ topicsCreated = 0 /\ requests = <<>>

C7_Witness ==
  selectedText = Undefined /\ isLanguagesLoaded /\ catalog = BuiltinCodes

\* position of the last assistant message of a topic's messages, 0 if none
LastAssistantAt(ms) ==
  IF \E i \in DOMAIN ms : ms[i].role = "assistant"
    THEN CHOOSE i \in DOMAIN ms :
           /\ ms[i].role = "assistant"
           /\ \A j \in DOMAIN ms : j > i => ms[j].role /= "assistant"
    ELSE 0

LastAssistantStatusOf(ms) ==
  IF LastAssistantAt(ms) = 0 THEN "none" ELSE ms[LastAssistantAt(ms)].status

\* C8: when the message store changes the status of the last assistant
\* message of the topic, pending, processing and searching give streaming,
\* paused, error and success give finished, and no such message or any other
\* value leaves the status; a store change that does not change the status of
\* the last assistant message leaves it too.
C8_StatusMapping ==
  [][messages' /= messages /\ topicRef /= 0 =>
       LET before == LastAssistantStatusOf(messages[topicRef])
           after  == LastAssistantStatusOf(messages'[topicRef])
       IN  status' =
             IF before = after THEN status
             ELSE IF after \in {"pending", "processing", "searching"}
               THEN "streaming"
             ELSE IF after \in {"paused", "error", "success"}
               THEN "finished"
             ELSE status]_vars

\* the fetch finished (status finished), then the store showed an earlier
\* assistant message in success and the last one in pending
C8_Witness ==
  /\ topicRef = 1 /\ Len(messages[1]) = 2
  /\ messages[1][1] = [role |-> "assistant", status |-> "success"]
  /\ messages[1][2] = [role |-> "assistant", status |-> "pending"]
  /\ status = "streaming"
  /\ requests = <<"done">>

\* C9: the submit made by regenerate happens with the copyable content
\* empty, and content only becomes non-empty by an on-finish callback.
C9_RegenerateClearsContent ==
  [][/\ (Len(requests') > Len(requests) /\ initialized
           /\ targetLanguage' = targetLanguage) => contentToCopy' = ""
     /\ (contentToCopy' /= contentToCopy /\ contentToCopy' /= "") =>
          \E r \in DOMAIN requests :
            requests[r] = "issued" /\ requests'[r] = "done"]_vars

\* a request finished with content, no language was ever changed, and the
\* last step submitted again: it was regenerate, and the content is gone
C9_Witness ==
  /\ out.kind = "submit" /\ Len(requests) = 2 /\ requests[1] = "done"
  /\ error = "" /\ lastChange = NoChange /\ contentToCopy = ""

\* C10: when a controller mounted after changeLanguage(X) completes its
\* initialization having read X's code, the target language (state and mirror)
\* and the language of the assistant are X if the catalog of that initialize()
\* knows X's code, and the sentinel otherwise.
C10_PersistenceRoundTrip ==
  [][~initialized /\ initialized' /\ lastChange /= NoChange
       /\ db = lastChange.langCode =>
       \E k \in DOMAIN pending :
         LET resolved == IF lastChange.langCode \in pending[k].cat
                           THEN lastChange ELSE UNKNOWN
         IN  /\ pending[k].saved = lastChange.langCode
             /\ targetLanguage' = resolved
             /\ targetLangRef' = resolved
             /\ assistantRef'.lang = resolved]_vars

C10_Witness ==
  /\ generation = 1 /\ initialized /\ lastChange = Lang("xx")
  /\ targetLanguage = lastChange /\ targetLangRef = lastChange
  /\ assistantRef.lang = lastChange /\ language = "en-us"
  /\ out.kind = "submit" /\ Len(requests) = 1

\* the language the claims expect a fresh controller to start with: the
\* interface language if the catalog of the first render knows it, zh-CN if not
ExpectedInitialLanguage ==
  IF language \in BuiltinCodes THEN Lang(language) ELSE Lang("zh-cn")

\* C11: until initialization completes the target language (state and mirror)
\* is the interface language if the catalog resolves it and zh-CN if it
\* resolves to the sentinel; when initialization completes and the settings
\* record is absent or empty, it still is.
C11_InitialTargetLanguage ==
  [][/\ ~initialized' =>
          /\ targetLanguage' = ExpectedInitialLanguage
          /\ targetLangRef' = ExpectedInitialLanguage
     /\ (~initialized /\ initialized' /\ db \in {NoRecord, ""}) =>
          /\ targetLanguage' = ExpectedInitialLanguage
          /\ targetLangRef' = ExpectedInitialLanguage
          /\ assistantRef'.lang = ExpectedInitialLanguage]_vars

\* the interface language is unknown to the catalog, the record is empty, and
\* initialization has just completed with zh-CN
C11_Witness ==
  /\ initialized /\ language = "fr-fr" /\ db = "" /\ lastChange = NoChange
  /\ targetLanguage = Lang("zh-cn") /\ targetLangRef = Lang("zh-cn")
  /\ topicsCreated = 1 /\ requests = <<"new">>

\* C12: changeLanguage(L) before initialization changes neither the target
\* language (state, mirror) nor the settings record; after initialization it
\* sets state and mirror to L and writes L's code to the record.  No other
\* step writes the record, so it holds the code of the last accepted
\* changeLanguage, or what it held at the start if there was none.
C12_ChangeLanguageContract ==
  [][/\ \A code \in Codes :
          HandleChangeLanguage(code) =>
            LET L == getLanguageByLangcode(catalog, code)
            IN  IF initialized
                  THEN /\ targetLanguage' = L /\ targetLangRef' = L
                       /\ db' = L.langCode /\ lastChange' = L
                  ELSE /\ targetLanguage' = targetLanguage
                       /\ targetLangRef' = targetLangRef
                       /\ db' = db /\ lastChange' = lastChange
     /\ (~initialized /\ ~initialized') =>
          /\ targetLanguage' = targetLanguage
          /\ targetLangRef' = targetLangRef /\ db' = db
     /\ db' /= db => initialized /\ lastChange'.langCode = db'
     /\ lastChange' /= NoChange => db' = lastChange'.langCode
     /\ lastChange' = NoChange => db' = db]_vars

C12_Witness ==
  /\ generation = 0 /\ initialized /\ language = "en-us"
  /\ lastChange = Lang("xx") /\ db = "xx"
  /\ targetLanguage = Lang("xx") /\ targetLangRef = Lang("xx")

\* what no fetch callback touches
CallbackFrame ==
  UNCHANGED <<targetLanguage, targetLangRef, initialized, assistantRef,
              topicRef, db, pending, topicsCreated>>

\* C13: the callbacks of every fetch: on-request-issued stores the handle as
\* the request id and changes nothing else; on-stream-start sets the status to
\* streaming; on-finish(content) sets it to finished and stores content as the
\* copyable text; on-error(err) sets it to finished and stores err's message,
\* leaving the copyable text.
C13_CallbackEffects ==
  [][/\ \A r \in 1..MaxSubmits :
          SetAskId(r) =>
            /\ askId' = r /\ status' = status /\ error' = error
            /\ contentToCopy' = contentToCopy /\ CallbackFrame
     /\ \A r \in 1..MaxSubmits :
          OnStream(r) =>
            /\ status' = "streaming" /\ error' = error
            /\ contentToCopy' = contentToCopy /\ askId' = askId
            /\ CallbackFrame
     /\ \A r \in 1..MaxSubmits, content \in Contents :
          OnFinish(r, content) =>
            /\ status' = "finished" /\ contentToCopy' = content
            /\ error' = error /\ askId' = askId /\ CallbackFrame
     /\ \A r \in 1..MaxSubmits, msg \in ErrorMessages :
          OnError(r, msg) =>
            /\ status' = "finished" /\ error' = msg
            /\ contentToCopy' = contentToCopy /\ askId' = askId
            /\ CallbackFrame]_vars

\* the language was changed after a fetch had been submitted, one fetch
\* finished with content and one failed: the content is kept beside the error
C13_Witness ==
  /\ requests = <<"done", "done">> /\ askId = 2 /\ lastChange /= NoChange
  /\ status = "finished" /\ contentToCopy = "c1" /\ error = "boom"

\* C14: pause() asks for the cancellation of the stored request id, which is
\* the handle of the last on-request-issued callback, and for none if no id
\* is stored; it changes nothing of the controller.
C14_PauseTargetsStoredId ==
  [][/\ HandlePause =>
          /\ out'.kind = "pause" /\ out'.cancel = askId
          /\ status' = status /\ contentToCopy' = contentToCopy
          /\ error' = error /\ targetLanguage' = targetLanguage
          /\ targetLangRef' = targetLangRef /\ askId' = askId
          /\ assistantRef' = assistantRef /\ topicRef' = topicRef
          /\ initialized' = initialized /\ requests' = requests
          /\ db' = db /\ pending' = pending
     /\ out'.kind = "pause" =>
          \/ out'.cancel = 0 /\ askId = 0
          \/ /\ out'.cancel = askId /\ askId \in DOMAIN requests
             /\ requests[askId] \in {"issued", "done"}
     /\ askId' /= askId =>
          /\ askId' \in DOMAIN requests
          /\ requests[askId'] = "new" /\ requests'[askId'] = "issued"]_vars

\* two fetches were submitted, the handle of the second was issued first and
\* the handle of the first last: pause asks to cancel the first
C14_Witness ==
  /\ out = [kind |-> "pause", cancel |-> 1, trace |-> topicRef]
  /\ requests = <<"issued", "issued">> /\ askId = 1

\* the three causes of a submit: the step that completes initialization, a
\* changeLanguage that changes the target language of an initialized
\* controller, a regenerate of an initialized controller
SubmitCause ==
  \/ ~initialized /\ initialized'
  \/ /\ initialized /\ targetLanguage' /= targetLanguage
     /\ \E code \in Codes : HandleChangeLanguage(code)
  \/ initialized /\ HandleRegenerate

\* C15: a step submits a request only if it is one of the three causes, never
\* more than one request, and the submit of the completion of initialization
\* is for the target language that the settings record left in force.
C15_SubmitOnlyForCause ==
  [][Len(requests') > Len(requests) =>
       /\ SubmitCause
       /\ Len(requests') = Len(requests) + 1
       /\ (~initialized /\ initialized') =>
            out' = [kind |-> "submit",
                    assistant |-> [kind |-> "assistant",
                                   lang |-> targetLangRef',
                                   text |-> selectedText],
                    topic |-> topicRef']]_vars

\* the last assistant message of the controller's topic is paused, error or
\* success
LastAssistantSettled ==
  /\ topicRef /= 0
  /\ LastAssistantStatusOf(messages[topicRef]) \in {"paused", "error", "success"}

\* C16: if every submitted request calls on-finish or on-error (the fairness
\* of SpecLive) and the last assistant message of the topic settles in paused,
\* error or success, the status eventually is finished and stays finished.
C16_EventuallyFinished ==
  <>[]LastAssistantSettled => <>[](status = "finished")

\* regenerate was used, both fetches have ended and the message has settled
C16_Witness ==
  /\ requests = <<"done", "done">> /\ status = "finished"
  /\ LastAssistantSettled /\ Len(messages[topicRef]) = 2

\* C17: the step that completes initialization submits a request (the
\* fetchResult effect of that render), whatever selection text initialize
\* accepted; so an initialized controller has submitted at least once.
C17_InitCompletionSubmits ==
  [][(~initialized /\ initialized') =>
       /\ out'.kind = "submit"
       /\ Len(requests') = Len(requests) + 1]_vars

\* C18: the status never returns to preparing; it moves only from preparing
\* to streaming or finished and between streaming and finished, and a step
\* that submits a new request (initialization, language change, regenerate)
\* leaves it as it is.
C18_NoReturnToPreparing ==
  [][/\ status' = "preparing" => status = "preparing"
     /\ status' /= status =>
          <<status, status'>> \in {<<"preparing", "streaming">>,
                                   <<"preparing", "finished">>,
                                   <<"streaming", "finished">>,
                                   <<"finished", "streaming">>}
     /\ Len(requests') > Len(requests) => status' = status]_vars

\* a fetch finished, then a language change submitted a new one: the status
\* is still finished
C18_Witness ==
  /\ status = "finished" /\ out.kind = "submit" /\ lastChange /= NoChange
  /\ Len(requests) = 2 /\ requests[1] = "done" /\ requests[2] = "new"

\* C19: the stored error message changes only in an on-error callback, which
\* stores a message; regenerate, a language change, pause, on-stream-start
\* and on-finish leave it, so once set it is never cleared.
C19_ErrorOnlyByOnError ==
  [][/\ error' /= error =>
          /\ error' \in ErrorMessages
          /\ \E r \in DOMAIN requests :
               requests[r] = "issued" /\ requests'[r] = "done"
          /\ contentToCopy' = contentToCopy
     /\ error /= "" => error' /= ""
     /\ (\/ HandleRegenerate
         \/ HandlePause
         \/ \E code \in Codes : HandleChangeLanguage(code)
         \/ \E r \in 1..MaxSubmits : OnStream(r)
         \/ \E r \in 1..MaxSubmits, content \in Contents :
              OnFinish(r, content)) => error' = error]_vars

\* one initialization, a regenerate, one fetch failed and one finished with
\* content: the error is still stored beside the result
C19_Witness ==
  /\ topicsCreated = 1 /\ lastChange = NoChange
  /\ requests = <<"done", "done">> /\ status = "finished"
  /\ error = "boom" /\ contentToCopy = "c1"

\* C20: the target language, its mirror, and the language of every assistant
\* that is built or submitted are never the unknown sentinel.
C20_NeverUnknown ==
  /\ targetLanguage /= UNKNOWN
  /\ targetLangRef /= UNKNOWN
  /\ assistantRef /= Null => assistantRef.lang /= UNKNOWN
  /\ out.kind = "submit" => out.assistant.lang /= UNKNOWN

====
